---------------------------- MODULE Spec2Model ----------------------------
(* A model of the appearance core of the range scanner add-on:             *)
(*   material_helper.py : getTargetMaterials, getFaceMaterialMapping,      *)
(*                        getMaterialColorAndMetallic, getUVPixelColor,    *)
(*                        getUVCoord, getPixel.                            *)
(*                                                                         *)
(* Conventions.                                                            *)
(*  - Python sequence indices are kept 0-based; At0 reads element i.       *)
(*  - Colour channels, metallic factors and indices of refraction are      *)
(*    fixed-point numbers in tenths (0.2 is 2, 1.5 is 15).                 *)
(*  - A UV coordinate is an exact fraction: a record [u, v, den] stands    *)
(*    for (u/den, v/den). Floating-point rounding is not modelled.         *)
(*  - Positions live on one axis: a face is a segment between two          *)
(*    vertices, a world matrix is an axis flip followed by a translation.  *)
(*  - A call that raises yields [exc |-> <exception name>]; a call that    *)
(*    returns yields [exc |-> "", val |-> <value>].                        *)
EXTENDS Integers, Sequences, FiniteSets, TLC

VARIABLES
    target,            \* the scanned object: material slots, world matrix, mesh
    debugOutput,       \* the debugOutput flag getTargetMaterials was called with
    stdout,            \* the lines printed so far
    materialMappings,  \* materialMappings[hit.target]: None or <<materials, mapping>>
    returned,          \* what each getMaterialColorAndMetallic call handed back, in call order
    sMesh, sFace, sPoint, sImage,   \* arguments of a direct getUVPixelColor call
    sOut,              \* its outcome (None before the call)
    mMesh,             \* the mesh getFaceMaterialMapping is called on
    mBuilt,            \* the mappings it returned, in call order
    nMu, nSigma,       \* arguments of an applyNoise call, element by element
    nOut,              \* its outcome (None before the call)
    rngCount,          \* generators np.random.default_rng() has created
    rngUsers,          \* for each generator, the calls that used its state
    calls,             \* the concurrent applyNoise calls: where each one is
    importable,        \* the modules Blender's interpreter can import
    environ,           \* os.environ
    ui_dependencies_installed,  \* dependencies_installed of module user_interface
    dm_dependencies_installed,  \* dependencies_installed of module dependency_management
    lastExecute,       \* what WM_OT_INSTALL_DEPENDENCIES.execute returned last ({} before)
    lastInstall,       \* the last direct install_and_import_module call
    custom,            \* scene.custom: the water profile list
    custom_index,      \* scene.custom_index
    lastOp             \* the last list operator executed, with the list before it

\* the scan and the texture sampler
scanVars == <<target, debugOutput, stdout, materialMappings, returned,
              sMesh, sFace, sPoint, sImage, sOut>>
\* the face material mapping and the noise model
mathVars == <<mMesh, mBuilt, nMu, nSigma, nOut, rngCount, rngUsers, calls>>
\* the add-on's user interface
uiVars == <<importable, environ, ui_dependencies_installed, dm_dependencies_installed,
            lastExecute, lastInstall, custom, custom_index, lastOp>>

vars == <<scanVars, mathVars, uiVars>>

-----------------------------------------------------------------------------
(* Bounds of the model.                                                    *)

\* most material slots of a target
MaxSlots == 2
\* most getMaterialColorAndMetallic calls of one scan
MaxHits == 2
\* denominator of the UV coordinates stored in a UV layer
UVDen == 100
\* the most faces of a mesh whose face material mapping is built
MaxFaces == 3
\* the most times the mapping of one mesh is built
MaxBuilds == 2
\* the longest array handed to applyNoise
MaxLen == 2
\* the largest standard normal draw, in whole standard deviations
MaxZ == 1
\* the threads that call applyNoise at the same time
MaxThreads == 2
\* the calls each of them makes
MaxCalls == 2
\* the deepest water layer of the water profile list, in metres
MaxDepth == 2

-----------------------------------------------------------------------------
(* Python values.                                                          *)

None == [none |-> TRUE]

Return(v) == [exc |-> "", val |-> v]
Raise(e) == [exc |-> e]

\* seq[i] for an index the caller knows to be in range(len(seq))
At0(seq, i) == seq[i + 1]

\* seq[i] as Python evaluates it on a tuple, list or numpy array: an index in
\* -len..-1 counts from the end, any other index outside the sequence raises.
PyIndex(seq, i) ==
    IF 0 <= i /\ i < Len(seq) THEN Return(seq[i + 1])
    ELSE IF -Len(seq) <= i /\ i < 0 THEN Return(seq[Len(seq) + i + 1])
    ELSE Raise("IndexError")

RECURSIVE Concat(_)
Concat(seqs) == IF seqs = <<>> THEN <<>> ELSE Head(seqs) \o Concat(Tail(seqs))

-----------------------------------------------------------------------------
(* The parts of the state a specification does not exercise stay as here.  *)

NoMath ==
    /\ mMesh = None /\ mBuilt = <<>>
    /\ nMu = None /\ nSigma = None /\ nOut = None
    /\ rngCount = 0 /\ rngUsers = <<>> /\ calls = <<>>

NoUI ==
    /\ importable = {} /\ environ = <<>>
    /\ ui_dependencies_installed = FALSE /\ dm_dependencies_installed = FALSE
    /\ lastExecute = {} /\ lastInstall = None
    /\ custom = <<>> /\ custom_index = 0 /\ lastOp = None

-----------------------------------------------------------------------------
(* The data model.                                                         *)

MaterialProperty(color, texture, metallic, ior) ==
    [color |-> color, texture |-> texture, metallic |-> metallic, ior |-> ior]

Image(pixels, size) == [pixels |-> pixels, size |-> size]

-----------------------------------------------------------------------------
(* Scene data the host supplies.                                           *)

\* the 2x2 RGBA texture [[1,0,0,1],[0,1,0,1],[0,0,1,1],[1,1,0,1]], row-major
ScenarioPixels == <<10,0,0,10,  0,10,0,10,  0,0,10,10,  10,10,0,10>>
ScenarioImage == Image(ScenarioPixels, <<2, 2>>)
\* an image datablock without pixel data
NoDataImage == Image(<<>>, <<0, 0>>)

SimpleMaterial == [use_nodes |-> FALSE, diffuse_color |-> <<2, 3, 4, 5>>, metallic |-> 1]
\* a node material: links are the from_node of each link into the Surface input
\* of the "Material Output" node (the socket takes one link at most)
NodeMaterial(links) == [use_nodes |-> TRUE, links |-> links]
GlassNode == [type |-> "BSDF_GLASS", Color |-> <<0, 0, 10, 10>>, IOR |-> 15]
\* baseLinks are the from_node of each link into the "Base Color" input
PrincipledNode(baseLinks) ==
    [type |-> "BSDF_PRINCIPLED", BaseColor |-> <<8, 6, 4, 10>>,
     BaseColorLinks |-> baseLinks, Metallic |-> 7]
TexImageNode(image) == [type |-> "TEX_IMAGE", image |-> image]
RampNode == [type |-> "VALTORGB"]
EmissionNode == [type |-> "EMISSION"]

\* what a material slot can hold; every image texture node has an image
SlotMaterials ==
    { None,
      SimpleMaterial,
      NodeMaterial(<<>>),
      NodeMaterial(<<GlassNode>>),
      NodeMaterial(<<PrincipledNode(<<>>)>>),
      NodeMaterial(<<PrincipledNode(<<RampNode>>)>>),
      NodeMaterial(<<PrincipledNode(<<TexImageNode(ScenarioImage)>>)>>),
      NodeMaterial(<<PrincipledNode(<<TexImageNode(NoDataImage)>>)>>),
      NodeMaterial(<<EmissionNode>>) }

RECURSIVE SeqsUpTo(_, _)
SeqsUpTo(S, n) ==
    IF n = 0 THEN {<<>>}
    ELSE LET shorter == SeqsUpTo(S, n - 1)
         IN shorter \cup {Append(s, x) : s \in {t \in shorter : Len(t) = n - 1}, x \in S}

-----------------------------------------------------------------------------
(* getTargetMaterials.                                                     *)

\* LinkStep with the texture link of a principled node ignored and the glass
\* node's index of refraction dropped
LinkStep_NoTextureNoIor(entry, node, name) ==
    IF node.type = "BSDF_GLASS" THEN
        [entry |-> MaterialProperty(node.Color, None, 0, 0), out |-> <<>>]
    ELSE IF node.type = "BSDF_PRINCIPLED" THEN
        [entry |-> MaterialProperty(node.BaseColor, None, node.Metallic, 0), out |-> <<>>]
    ELSE
        [entry |-> entry,
         out |-> <<"Unknown material type for object " \o name \o "!", node.type>>]

\* one pass of the loop over the links into the Surface input: the entry it
\* leaves in targetMaterials[materialIndex] (given the entry so far) and the
\* lines it prints
LinkStep(entry, node, name) ==
    IF node.type = "BSDF_GLASS" THEN
        [entry |-> MaterialProperty(node.Color, None, 0, node.IOR), out |-> <<>>]
    ELSE IF node.type = "BSDF_PRINCIPLED" THEN
        LET connectedLinks == node.BaseColorLinks IN
        IF Len(connectedLinks) > 0 /\ At0(connectedLinks, 0).type = "TEX_IMAGE" THEN
            LET image == At0(connectedLinks, 0).image
                texture == Image(image.pixels, image.size)
            IN [entry |-> MaterialProperty(None, texture, node.Metallic, 0), out |-> <<>>]
        ELSE
            [entry |-> MaterialProperty(node.BaseColor, None, node.Metallic, 0), out |-> <<>>]
    ELSE
        [entry |-> entry,
         out |-> <<"Unknown material type for object " \o name \o "!", node.type>>]

RECURSIVE LinkLoop(_, _, _)
LinkLoop(entry, links, name) ==
    IF links = <<>> THEN [entry |-> entry, out |-> <<>>]
    ELSE LET first == LinkStep(entry, Head(links), name)
             rest == LinkLoop(first.entry, Tail(links), name)
         IN [entry |-> rest.entry, out |-> first.out \o rest.out]

\* ResolveSlot with the unknown-kind warning printed only under debugOutput
ResolveSlot_DebugGated(debug, material, name) ==
    IF material # None THEN
        IF material.use_nodes = FALSE THEN
            [entry |-> MaterialProperty(material.diffuse_color, None, material.metallic, 0),
             out |-> <<>>]
        ELSE LET r == LinkLoop(None, material.links, name)
             IN [entry |-> r.entry, out |-> IF debug THEN r.out ELSE <<>>]
    ELSE
        [entry |-> None,
         out |-> IF debug THEN <<"WARNING: No material set for object " \o name \o "!">>
                 ELSE <<>>]

\* the body of the loop over the material slots, for one slot
ResolveSlot(debug, material, name) ==
    IF material # None THEN
        IF material.use_nodes = FALSE THEN
            [entry |-> MaterialProperty(material.diffuse_color, None, material.metallic, 0),
             out |-> <<>>]
        ELSE LinkLoop(None, material.links, name)
    ELSE
        [entry |-> None,
         out |-> IF debug THEN <<"WARNING: No material set for object " \o name \o "!">>
                 ELSE <<>>]

\* GetTargetMaterials with the resolved entries packed at the front of a
\* table that holds no entry for an empty or unresolved slot
GetTargetMaterials_Packed(debug, tgt) ==
    LET materialCount == Len(tgt.material_slots)
        slot == [i \in 1..materialCount |->
                    ResolveSlot(debug, tgt.material_slots[i], tgt.name)]
        notNone(e) == e # None
    IN [table |-> SelectSeq([i \in 1..materialCount |-> slot[i].entry], notNone),
        out |-> Concat([i \in 1..materialCount |-> slot[i].out])]

\* the table (np.empty(materialCount, dtype=MaterialProperty) starts all None)
\* and the printed lines
GetTargetMaterials(debug, tgt) ==
    LET materialCount == Len(tgt.material_slots)
        slot == [i \in 1..materialCount |->
                    ResolveSlot(debug, tgt.material_slots[i], tgt.name)]
    IN [table |-> [i \in 1..materialCount |-> slot[i].entry],
        out |-> Concat([i \in 1..materialCount |-> slot[i].out])]

-----------------------------------------------------------------------------
(* getFaceMaterialMapping.                                                 *)

\* mapping[f.index] = f.material_index for every polygon f of the mesh
\* a variant that stores each face's own index in place of its slot index
GetFaceMaterialMapping_FaceIndex(mesh) ==
    [i \in 1..Len(mesh.polygons) |->
        (CHOOSE f \in {mesh.polygons[k] : k \in 1..Len(mesh.polygons)} : f.index = i - 1).index]

GetFaceMaterialMapping(mesh) ==
    [i \in 1..Len(mesh.polygons) |->
        (CHOOSE f \in {mesh.polygons[k] : k \in 1..Len(mesh.polygons)} : f.index = i - 1).material_index]

-----------------------------------------------------------------------------
(* Geometry: mathutils on one axis.                                        *)

\* a world matrix maps the local position p to s * p + t, with s = 1 or s = -1
Matrix(s, t) == [s |-> s, t |-> t]
\* matrix @ point
MatMul(m, p) == m.s * p + m.t
\* matrix.inverted(): p = s * (q - t) since s * s = 1
Inverted(m) == Matrix(m.s, -(m.s * m.t))

\* poly_3d_calc(lco, point) for a face with the two corners lco: the weights
\* of the point against the corners, as numerators over a common denominator
Poly3dCalc(lco, point) ==
    [w |-> <<lco[2] - point, point - lco[1]>>, den |-> lco[2] - lco[1]]

\* PyRound rounding down
PyRound_Floor(n, d) == n \div d

\* round(n / d) for d > 0 as Python rounds a float: to the nearest integer,
\* a tie to the even one
PyRound(n, d) ==
    LET q == n \div d
        r == n % d
    IN IF 2 * r < d THEN q
       ELSE IF 2 * r > d THEN q + 1
       ELSE IF q % 2 = 0 THEN q ELSE q + 1

-----------------------------------------------------------------------------
(* getUVCoord, getPixel, getUVPixelColor.                                  *)

\* the weighted sum of the face's loop UVs: sum(p * w for p, w in zip(luv, lwts))
InterpolateUV(mesh, face, point) ==
    LET uv == mesh.uv_layers_active.data
        lco == [k \in 1..Len(face.vertices) |-> At0(mesh.vertices, face.vertices[k])]
        luv == [k \in 1..Len(face.loop_indices) |-> At0(uv, face.loop_indices[k])]
        lwts == Poly3dCalc(lco, point)
    IN [u |-> luv[1].u * lwts.w[1] + luv[2].u * lwts.w[2],
        v |-> luv[1].v * lwts.w[1] + luv[2].v * lwts.w[2],
        den |-> UVDen * lwts.den]

\* WrapUV clamping each component to the edge of the image instead
WrapUV_Clamp(uv_loc) ==
    LET clamp(x) == IF x < 0 THEN 0 ELSE IF x > uv_loc.den THEN uv_loc.den ELSE x
    IN [u |-> clamp(uv_loc.u), v |-> clamp(uv_loc.v), den |-> uv_loc.den]

\* Vector((uv_loc[0] % 1, uv_loc[1] % 1))
WrapUV(uv_loc) == [u |-> uv_loc.u % uv_loc.den, v |-> uv_loc.v % uv_loc.den, den |-> uv_loc.den]

\* the pixel coordinate of a wrapped UV in an image of the given size
PixelCoord(uv_loc, imageSize) ==
    LET image_size_x == imageSize[1]
        image_size_y == imageSize[2]
        x_co == PyRound(uv_loc.u * (image_size_x - 1), uv_loc.den)
        y_co == PyRound(uv_loc.v * (image_size_y - 1), uv_loc.den)
    IN <<x_co, y_co>>

GetUVCoord(mesh, face, point, imageSize) ==
    IF mesh.uv_layers_active = None THEN Raise("AssertionError")
    ELSE Return(PixelCoord(WrapUV(InterpolateUV(mesh, face, point)), imageSize))

GetPixel(uv_pixels, imageSize, uv_coord) ==
    LET pixelNumber == (imageSize[1] * uv_coord[2]) + uv_coord[1]
        r == PyIndex(uv_pixels, pixelNumber * 4 + 0)
        g == PyIndex(uv_pixels, pixelNumber * 4 + 1)
        b == PyIndex(uv_pixels, pixelNumber * 4 + 2)
        a == PyIndex(uv_pixels, pixelNumber * 4 + 3)
    IN IF r.exc # "" THEN r
       ELSE IF g.exc # "" THEN g
       ELSE IF b.exc # "" THEN b
       ELSE IF a.exc # "" THEN a
       ELSE Return(<<r.val, g.val, b.val, a.val>>)

\* GetUVPixelColor without the check that the pixel buffer holds a pixel
GetUVPixelColor_NoLenCheck(mesh, face_idx, point, image) ==
    IF ~(image # None /\ image.pixels # None)
    THEN Raise("AssertionError")
    ELSE LET face == At0(mesh.polygons, face_idx)
             uv_coord == GetUVCoord(mesh, face, point, image.size)
         IN IF uv_coord.exc # "" THEN uv_coord
            ELSE GetPixel(image.pixels, image.size, uv_coord.val)

GetUVPixelColor(mesh, face_idx, point, image) ==
    IF ~(image # None /\ image.pixels # None /\ Len(image.pixels) > 0)
    THEN Raise("AssertionError")
    ELSE LET face == At0(mesh.polygons, face_idx)
             uv_coord == GetUVCoord(mesh, face, point, image.size)
         IN IF uv_coord.exc # "" THEN uv_coord
            ELSE GetPixel(image.pixels, image.size, uv_coord.val)

-----------------------------------------------------------------------------
(* getMaterialColorAndMetallic.                                            *)

\* HitInfo: the fields the lookup reads (hit.target is the one target)
HitInfo(location, faceIndex) == [location |-> location, faceIndex |-> faceIndex]

\* GetMaterialColorAndMetallic sampling at the hit location moved by the world
\* matrix itself
GetMaterialColorAndMetallic_NotInverted(hit, tgt, mappings) ==
    LET materials == mappings[1]
        unchanged(e) == [res |-> Raise(e), materials |-> materials]
        materialIndex == PyIndex(mappings[2], hit.faceIndex)
    IN IF materialIndex.exc # "" THEN unchanged(materialIndex.exc)
       ELSE LET material == PyIndex(materials, materialIndex.val) IN
       IF material.exc # "" THEN unchanged(material.exc)
       ELSE IF material.val = None THEN unchanged("AttributeError")
       ELSE LET ref == materialIndex.val % Len(materials) IN
       IF material.val.texture # None THEN
           LET newPoint == MatMul(tgt.matrix_world, hit.location)
               color == GetUVPixelColor(tgt.data, hit.faceIndex, newPoint, material.val.texture)
           IN IF color.exc # "" THEN unchanged(color.exc)
              ELSE [res |-> Return(ref),
                    materials |-> [materials EXCEPT ![ref + 1].color = color.val]]
       ELSE [res |-> Return(ref), materials |-> materials]

\* The call on materialMappings[hit.target] = <<materials, mapping>>.
\* res: an exception, or the position of the table entry the call returns a
\* reference to; materials: the table after the call.
GetMaterialColorAndMetallic(hit, tgt, mappings) ==
    LET materials == mappings[1]
        unchanged(e) == [res |-> Raise(e), materials |-> materials]
        materialIndex == PyIndex(mappings[2], hit.faceIndex)
    IN IF materialIndex.exc # "" THEN unchanged(materialIndex.exc)
       ELSE LET material == PyIndex(materials, materialIndex.val) IN
       IF material.exc # "" THEN unchanged(material.exc)
       ELSE IF material.val = None THEN unchanged("AttributeError")
       ELSE LET ref == materialIndex.val % Len(materials) IN
       IF material.val.texture # None THEN
           LET newPoint == MatMul(Inverted(tgt.matrix_world), hit.location)
               color == GetUVPixelColor(tgt.data, hit.faceIndex, newPoint, material.val.texture)
           IN IF color.exc # "" THEN unchanged(color.exc)
              ELSE [res |-> Return(ref),
                    materials |-> [materials EXCEPT ![ref + 1].color = color.val]]
       ELSE [res |-> Return(ref), materials |-> materials]

-----------------------------------------------------------------------------
(* The scene of a scan.                                                    *)

UV(u, v) == [u |-> u, v |-> v]

Polygon(index, vertices, loop_indices, material_index) ==
    [index |-> index, vertices |-> vertices, loop_indices |-> loop_indices,
     material_index |-> material_index]

\* a UV layer over the four loops of the scene mesh; its UVs leave [0,1)
SceneUVLayer == [data |-> <<UV(0, 0), UV(150, 99), UV(-25, 25), UV(75, 75)>>]

\* two faces on the vertices at 0, 2 and 4, with the material index of each
SceneMesh(uvLayer, m0, m1) ==
    [vertices |-> <<0, 2, 4>>,
     polygons |-> <<Polygon(0, <<0, 1>>, <<0, 1>>, m0), Polygon(1, <<1, 2>>, <<2, 3>>, m1)>>,
     uv_layers_active |-> uvLayer]

\* the scanned meshes: with and without a UV layer; the first face uses any
\* slot index up to MaxSlots (one past the longest table), the second slot 0
SceneMeshes ==
    {SceneMesh(l, m0, 0) : l \in {None, SceneUVLayer}, m0 \in 0..MaxSlots}

Worlds == {Matrix(1, 3), Matrix(-1, 1)}

Object(name, material_slots, matrix_world, data) ==
    [name |-> name, material_slots |-> material_slots, matrix_world |-> matrix_world,
     data |-> data]

\* the materials of the scenes that are scanned
ScannedMaterials ==
    { None,
      SimpleMaterial,
      NodeMaterial(<<PrincipledNode(<<TexImageNode(ScenarioImage)>>)>>) }

\* the local positions on a face: its corners and the points between them
FacePoints(mesh, face) ==
    At0(mesh.vertices, face.vertices[1]) .. At0(mesh.vertices, face.vertices[2])

\* the hits an intersector can report on the target, located in world space
Hits(tgt) ==
    {HitInfo(MatMul(tgt.matrix_world, p), f.index) :
        <<f, p>> \in {<<g, q>> \in {tgt.data.polygons[k] : k \in 1..Len(tgt.data.polygons)}
                                    \X (0..4) : q \in FacePoints(tgt.data, g)}}

-----------------------------------------------------------------------------
(* The scan: the tables are built once per target, then hits are looked up. *)

NoSampler == sMesh = None /\ sFace = 0 /\ sPoint = 0 /\ sImage = None /\ sOut = None

Init ==
    /\ target \in {Object("Cube", slots, w, m) :
                      slots \in SeqsUpTo(ScannedMaterials, MaxSlots),
                      w \in Worlds, m \in SceneMeshes}
    /\ debugOutput = FALSE
    /\ stdout = <<>>
    /\ materialMappings = None
    /\ returned = <<>>
    /\ NoSampler
    /\ NoMath /\ NoUI

\* materialMappings[target] = (getTargetMaterials(debugOutput, target),
\*                             getFaceMaterialMapping(target.data))
Resolve(debug) ==
    /\ target # None
    /\ materialMappings = None
    /\ LET r == GetTargetMaterials(debug, target)
       IN /\ materialMappings' = <<r.table, GetFaceMaterialMapping(target.data)>>
          /\ stdout' = stdout \o r.out
    /\ debugOutput' = debug
    /\ UNCHANGED <<target, returned, sMesh, sFace, sPoint, sImage, sOut>>
    /\ UNCHANGED <<mathVars, uiVars>>

\* one getMaterialColorAndMetallic(hit, materialMappings) call; the caller
\* keeps what it got: the exception, or the reference (ref) together with the
\* fields the referenced entry had when the call returned (atReturn)
Lookup(hit) ==
    /\ materialMappings # None
    /\ Len(returned) < MaxHits
    /\ LET r == GetMaterialColorAndMetallic(hit, target, materialMappings)
       IN /\ materialMappings' = <<r.materials, materialMappings[2]>>
          /\ returned' = Append(returned,
                [hit |-> hit, res |-> r.res,
                 atReturn |-> IF r.res.exc = "" THEN r.materials[r.res.val + 1] ELSE None])
    /\ UNCHANGED <<target, debugOutput, stdout, sMesh, sFace, sPoint, sImage, sOut>>
    /\ UNCHANGED <<mathVars, uiVars>>

Next ==
    \/ \E debug \in BOOLEAN : Resolve(debug)
    \/ \E hit \in Hits(target) : Lookup(hit)

Spec == Init /\ [][Next]_vars

-----------------------------------------------------------------------------
(* getTargetMaterials alone, on every kind of slot.                        *)

InitResolve ==
    /\ target \in {Object("Cube", slots, Matrix(1, 0), SceneMesh(None, 0, 0)) :
                      slots \in SeqsUpTo(SlotMaterials, MaxSlots)}
    /\ debugOutput = FALSE
    /\ stdout = <<>>
    /\ materialMappings = None
    /\ returned = <<>>
    /\ NoSampler
    /\ NoMath /\ NoUI

NextResolve == \E debug \in BOOLEAN : Resolve(debug)

SpecResolve == InitResolve /\ [][NextResolve]_vars

-----------------------------------------------------------------------------
(* getUVPixelColor alone, on well-formed and malformed arguments.          *)

\* a 3x2 image whose texel k holds (k, k+1, k+2, 10)
WideImage == Image(<<0,1,2,10, 1,2,3,10, 2,3,4,10, 3,4,5,10, 4,5,6,10, 5,6,7,10>>, <<3, 2>>)
OnePixel == <<3, 1, 4, 10>>

SamplerImages ==
    { ScenarioImage, WideImage, Image(OnePixel, <<1, 1>>),
      \* no image, an empty pixel buffer
      None, NoDataImage,
      \* size metadata that disagrees with the pixel buffer
      Image(OnePixel, <<0, 0>>), Image(OnePixel, <<2, 2>>),
      Image(ScenarioPixels, <<1, 0>>), Image(ScenarioPixels, <<3, 2>>) }

\* an image whose pixel buffer is missing
NoPixelsImage == Image(None, <<2, 2>>)

SamplerUs == {-25, 0, 50, 75, 99, 150}
SamplerVs == {-50, 0, 99}

\* one face on the vertices at 0 and 2, with or without a UV layer
SamplerMeshes ==
    {[vertices |-> <<0, 2>>,
      polygons |-> <<Polygon(0, <<0, 1>>, <<0, 1>>, 0)>>,
      uv_layers_active |-> l] :
        l \in {None} \cup {[data |-> <<UV(u0, v0), UV(u1, v1)>>] :
                              u0 \in SamplerUs, v0 \in SamplerVs,
                              u1 \in SamplerUs, v1 \in SamplerVs}}

InitSampler ==
    /\ target = None
    /\ debugOutput = FALSE
    /\ stdout = <<>>
    /\ materialMappings = None
    /\ returned = <<>>
    /\ sMesh \in SamplerMeshes
    /\ sFace = 0
    /\ sPoint \in FacePoints(sMesh, At0(sMesh.polygons, 0))
    /\ \/ sImage \in SamplerImages
       \/ sImage = NoPixelsImage
    /\ sOut = None
    /\ NoMath /\ NoUI

\* rgba = getUVPixelColor(mesh, face_idx, point, image)
Sample ==
    /\ sMesh # None
    /\ sOut = None
    /\ sOut' = GetUVPixelColor(sMesh, sFace, sPoint, sImage)
    /\ UNCHANGED <<target, debugOutput, stdout, materialMappings, returned,
                   sMesh, sFace, sPoint, sImage>>
    /\ UNCHANGED <<mathVars, uiVars>>

NextSampler == Sample

SpecSampler == InitSampler /\ [][NextSampler]_vars

-----------------------------------------------------------------------------
(* Properties of getTargetMaterials (checked under SpecResolve).           *)

Resolved == materialMappings # None
Slots == target.material_slots
Table == materialMappings[1]

IsSimple(m) == m # None /\ m.use_nodes = FALSE
\* the node feeding the Surface input is of the given type
FedBy(m, type) ==
    m # None /\ m.use_nodes /\ Len(m.links) = 1 /\ m.links[1].type = type
IsTextured(m) ==
    /\ FedBy(m, "BSDF_PRINCIPLED")
    /\ Len(m.links[1].BaseColorLinks) > 0
    /\ m.links[1].BaseColorLinks[1].type = "TEX_IMAGE"
IsUnknownKind(m) ==
    /\ m # None /\ m.use_nodes /\ Len(m.links) = 1
    /\ m.links[1].type \notin {"BSDF_GLASS", "BSDF_PRINCIPLED"}

\* C1: the table getTargetMaterials returns has exactly one entry per material
\* slot of the target, and entry i is what the slot i alone resolves to, so it
\* depends on no other slot.
C1_SlotAligned ==
    Resolved =>
        /\ Len(Table) = Len(Slots)
        /\ \A i \in 1..Len(Slots) :
              Table[i] = GetTargetMaterials(debugOutput,
                            [target EXCEPT !.material_slots = <<Slots[i]>>]).table[1]

\* an empty slot in front of a textured one: the texture sits at the second entry
C1_Witness ==
    /\ Resolved
    /\ Len(Slots) = 2
    /\ Slots[1] = None /\ IsTextured(Slots[2])
    /\ Table[1] = None /\ Table[2] # None

\* C2: the entry of a non-empty slot follows the material kind: a non-shader
\* material gives its diffuse colour and metallic factor with ior 0; a glass
\* node gives its Color and IOR inputs with metallic 0; a principled node fed
\* by an image texture gives no colour, the image's pixels and size, and its
\* Metallic input; any other principled node gives its Base Color and Metallic
\* inputs and no texture.
C2_Dispatch ==
    Resolved =>
        \A i \in 1..Len(Slots) :
            LET m == Slots[i]
                e == Table[i]
            IN /\ IsSimple(m) =>
                    e = [color |-> m.diffuse_color, texture |-> None,
                         metallic |-> m.metallic, ior |-> 0]
               /\ FedBy(m, "BSDF_GLASS") =>
                    e = [color |-> m.links[1].Color, texture |-> None,
                         metallic |-> 0, ior |-> m.links[1].IOR]
               /\ IsTextured(m) =>
                    /\ e # None
                    /\ e.color = None
                    /\ e.texture = [pixels |-> m.links[1].BaseColorLinks[1].image.pixels,
                                    size |-> m.links[1].BaseColorLinks[1].image.size]
                    /\ e.metallic = m.links[1].Metallic
               /\ (FedBy(m, "BSDF_PRINCIPLED") /\ ~IsTextured(m)) =>
                    /\ e # None
                    /\ e.color = m.links[1].BaseColor
                    /\ e.texture = None
                    /\ e.metallic = m.links[1].Metallic

\* a glass slot and a textured principled slot, both resolved
C2_Witness ==
    /\ Resolved
    /\ \E i, j \in 1..Len(Slots) :
          /\ FedBy(Slots[i], "BSDF_GLASS") /\ Table[i].ior = 15
          /\ IsTextured(Slots[j]) /\ Table[j].texture = ScenarioImage

\* C3: an empty slot and a slot whose surface is fed by a node that is neither
\* glass nor principled leave their entry empty, every simple, glass or
\* principled slot beside them is still resolved, and each unknown node prints
\* the warning and its type whether or not debugOutput is set.
C3_Degrades ==
    Resolved =>
        /\ \A i \in 1..Len(Slots) :
              /\ Slots[i] = None => Table[i] = None
              /\ IsUnknownKind(Slots[i]) => Table[i] = None
              /\ (\/ IsSimple(Slots[i])
                  \/ FedBy(Slots[i], "BSDF_GLASS")
                  \/ FedBy(Slots[i], "BSDF_PRINCIPLED")) => Table[i] # None
        /\ LET unknown == {i \in 1..Len(Slots) : IsUnknownKind(Slots[i])}
               warnings == {k \in 1..Len(stdout) :
                               stdout[k] = "Unknown material type for object " \o target.name \o "!"}
           IN /\ Cardinality(warnings) = Cardinality(unknown)
              /\ \A k \in warnings : k < Len(stdout) /\ stdout[k + 1] = "EMISSION"

\* without debugOutput: an unknown slot left empty, a warning printed, and a
\* simple slot resolved beside it
C3_Witness ==
    /\ Resolved
    /\ ~debugOutput
    /\ stdout # <<>>
    /\ \E i, j \in 1..Len(Slots) :
          /\ IsUnknownKind(Slots[i]) /\ Table[i] = None
          /\ IsSimple(Slots[j]) /\ Table[j] # None

-----------------------------------------------------------------------------
(* Properties of the texture sampler (checked under SpecSampler).          *)

Sampled == sOut # None
HasUVLayer == sMesh.uv_layers_active # None
HasPixels == sImage # None /\ sImage.pixels # None /\ Len(sImage.pixels) > 0
\* the size metadata agree with the pixel buffer
WellFormed ==
    /\ HasPixels
    /\ sImage.size[1] > 0 /\ sImage.size[2] > 0
    /\ Len(sImage.pixels) = sImage.size[1] * sImage.size[2] * 4

\* the UV interpolated at the sampled point, before wrapping
SampledUV == InterpolateUV(sMesh, At0(sMesh.polygons, sFace), sPoint)
InUnitSquare(uv) == 0 <= uv.u /\ uv.u < uv.den /\ 0 <= uv.v /\ uv.v < uv.den

\* x is the integer nearest to n / d (d > 0), the even one of two equally near
Nearest(x, n, d) ==
    LET e == 2 * (x * d - n)
    IN \/ -d < e /\ e < d
       \/ e \in {d, -d} /\ x % 2 = 0

\* the four floats of the texel with the linear index k
Texel(pixels, k) == <<pixels[4 * k + 1], pixels[4 * k + 2], pixels[4 * k + 3], pixels[4 * k + 4]>>

\* C4: on a well-formed image of size (w, h) and a UV (u, v) in [0,1)x[0,1) the
\* sampler returns the four floats stored at the pixel index y*w + x, where x
\* is u*(w-1) and y is v*(h-1), each rounded to the nearest integer; on the 2x2
\* texture of the scenario UV (0,0) reads (1,0,0,1) and UV (0.99,0.99) reads
\* (1,1,0,1).
C4_NearestTexel ==
    (Sampled /\ HasUVLayer /\ WellFormed /\ InUnitSquare(SampledUV)) =>
        LET w == sImage.size[1]
            h == sImage.size[2]
            uv == SampledUV
        IN /\ \E x \in 0..(w - 1), y \in 0..(h - 1) :
                 /\ Nearest(x, uv.u * (w - 1), uv.den)
                 /\ Nearest(y, uv.v * (h - 1), uv.den)
                 /\ sOut = [exc |-> "", val |-> Texel(sImage.pixels, y * w + x)]
           /\ (ScenarioImage = sImage /\ uv.u = 0 /\ uv.v = 0) =>
                 sOut = [exc |-> "", val |-> <<10, 0, 0, 10>>]
           /\ (ScenarioImage = sImage /\ 100 * uv.u = 99 * uv.den /\ 100 * uv.v = 99 * uv.den) =>
                 sOut = [exc |-> "", val |-> <<10, 10, 0, 10>>]

\* UV (0.99, 0.99) on the scenario texture read as its last texel
C4_Witness ==
    /\ Sampled /\ HasUVLayer
    /\ ScenarioImage = sImage
    /\ 100 * SampledUV.u = 99 * SampledUV.den /\ 100 * SampledUV.v = 99 * SampledUV.den
    /\ sOut = [exc |-> "", val |-> <<10, 10, 0, 10>>]

\* the sampled mesh with every UV of its layer moved by (1, 1)
ShiftedMesh ==
    [sMesh EXCEPT !.uv_layers_active.data =
        [k \in 1..Len(@) |-> UV(@[k].u + UVDen, @[k].v + UVDen)]]

\* C5: for every image and every interpolated UV, sampling at (u+1, v+1) gives
\* what sampling at (u, v) gives, and the wrapped components lie in [0,1).
C5_Periodic ==
    (Sampled /\ HasUVLayer) =>
        /\ InterpolateUV(ShiftedMesh, At0(sMesh.polygons, sFace), sPoint)
              = [u |-> SampledUV.u + SampledUV.den, v |-> SampledUV.v + SampledUV.den,
                 den |-> SampledUV.den]
        /\ sOut = GetUVPixelColor(ShiftedMesh, sFace, sPoint, sImage)
        /\ InUnitSquare(WrapUV(SampledUV))

\* a UV right of the image and below it, sampled to a colour
C5_Witness ==
    /\ Sampled /\ HasUVLayer /\ WellFormed
    /\ SampledUV.u >= SampledUV.den /\ SampledUV.v < 0
    /\ sOut.exc = ""

Malformed ==
    /\ HasPixels
    /\ Len(sImage.pixels) # sImage.size[1] * sImage.size[2] * 4

\* the pixel index getPixel computes for the sampled point
SampledPixelNumber ==
    LET c == PixelCoord(WrapUV(SampledUV), sImage.size)
    IN sImage.size[1] * c[2] + c[1]

\* C7: when the size metadata disagree with the pixel buffer and the pixel
\* index lies outside the buffer, getPixel fails; it returns no texel.
C7_NoWrapAround ==
    (Sampled /\ HasUVLayer /\ Malformed
        /\ (SampledPixelNumber < 0 \/ 4 * SampledPixelNumber + 3 >= Len(sImage.pixels))) =>
        sOut.exc # ""

-----------------------------------------------------------------------------
(* Properties of the appearance lookup (checked under Spec).               *)

\* the table as getTargetMaterials built it
ResolvedTable == GetTargetMaterials(debugOutput, target).table
\* the material slot of the face a call was about
SlotOfHit(r) == materialMappings[2][r.hit.faceIndex + 1]
\* the local position whose image under the world matrix is the location
LocalPoint(location) ==
    CHOOSE p \in -8..8 : target.matrix_world.s * p + target.matrix_world.t = location
\* the texel of the image under the UV interpolated on a face at a local point
TexelAt(image, face_idx, p) ==
    LET c == PixelCoord(WrapUV(InterpolateUV(target.data, At0(target.data.polygons, face_idx), p)),
                        image.size)
    IN Texel(image.pixels, c[2] * image.size[1] + c[1])

\* C8: a call about a face whose slot holds a resolved entry returns that
\* entry (the one at mapping[hit.faceIndex]); if the entry carries a texture
\* (and the mesh has a UV layer) its colour is the texel under the hit location
\* taken back to the target's local space, otherwise it is the stored colour,
\* read without sampling, so also on a mesh without a UV layer.
C8_ResolveColor ==
    Resolved =>
        \A k \in 1..Len(returned) :
            LET r == returned[k]
                slot == SlotOfHit(r)
                entry == ResolvedTable[slot + 1]
            IN (slot < Len(ResolvedTable) /\ entry # None) =>
                  IF entry.texture # None THEN
                      target.data.uv_layers_active # None =>
                          /\ r.res = [exc |-> "", val |-> slot]
                          /\ r.atReturn =
                                [entry EXCEPT !.color =
                                    TexelAt(entry.texture, r.hit.faceIndex,
                                            LocalPoint(r.hit.location))]
                  ELSE /\ r.res = [exc |-> "", val |-> slot]
                       /\ r.atReturn = entry

\* under a flipping world matrix: a textured face sampled to the texel (0,1,0,1)
\* and a solid face read on a mesh without a UV layer
C8_Witness ==
    /\ Resolved
    /\ \E k \in 1..Len(returned) :
          /\ returned[k].res.exc = ""
          /\ target.matrix_world.s = -1
          /\ returned[k].hit.location # LocalPoint(returned[k].hit.location)
          /\ returned[k].atReturn.texture # None
          /\ returned[k].atReturn.color = <<0, 10, 0, 10>>
    /\ \E k \in 1..Len(returned) :
          /\ returned[k].res.exc = ""
          /\ returned[k].atReturn.texture = None
          /\ returned[k].atReturn.color = <<2, 3, 4, 5>>

\* C9: a call about a face whose slot index is outside the table, or whose
\* table entry is empty, does not raise.
C9_NoMaterialResult ==
    Resolved =>
        \A k \in 1..Len(returned) :
            LET slot == SlotOfHit(returned[k])
            IN (slot >= Len(Table) \/ Table[slot + 1] = None) => returned[k].res.exc = ""

\* C10: the lookups leave the table as getTargetMaterials built it, and the
\* entry a call returned keeps the colour of that call's own hit.
C10_TableReadOnly ==
    Resolved =>
        /\ Table = ResolvedTable
        /\ \A k \in 1..Len(returned) :
              returned[k].res.exc = "" => Table[returned[k].res.val + 1] = returned[k].atReturn

-----------------------------------------------------------------------------
(* The face material mapping on its own: getFaceMaterialMapping is called  *)
(* up to MaxBuilds times on one mesh of up to MaxFaces faces.              *)

\* a mesh of the given per-face slot indices; polygons[i].index = i
MappingMesh(slots) ==
    [vertices |-> [i \in 1..(Len(slots) + 1) |-> 2 * (i - 1)],
     polygons |-> [i \in 1..Len(slots) |-> Polygon(i - 1, <<i - 1, i>>, <<2 * i - 2, 2 * i - 1>>, slots[i])],
     uv_layers_active |-> None]

MappingMeshes == {MappingMesh(slots) : slots \in SeqsUpTo(0..MaxSlots, MaxFaces)}

NoScan ==
    /\ target = None /\ debugOutput = FALSE /\ stdout = <<>>
    /\ materialMappings = None /\ returned = <<>>
    /\ NoSampler

InitMapping ==
    /\ NoScan /\ NoUI
    /\ mMesh \in MappingMeshes
    /\ mBuilt = <<>>
    /\ nMu = None /\ nSigma = None /\ nOut = None
    /\ rngCount = 0 /\ rngUsers = <<>> /\ calls = <<>>

\* one getFaceMaterialMapping(mesh) call: the mesh is only read
BuildMapping ==
    /\ Len(mBuilt) < MaxBuilds
    /\ mBuilt' = Append(mBuilt, [before |-> mMesh, mapping |-> GetFaceMaterialMapping(mMesh), after |-> mMesh])
    /\ UNCHANGED <<mMesh, nMu, nSigma, nOut, rngCount, rngUsers, calls>>
    /\ UNCHANGED <<scanVars, uiVars>>

NextMapping ==
    \/ BuildMapping

SpecMapping == InitMapping /\ [][NextMapping]_vars

\* C11: every call returns one entry per face, entry i being the slot index
\* of face i; the mesh is as it was before the call, and a repeated call on
\* the same mesh returns the same mapping.
C11_FaceMapping ==
    \A k \in 1..Len(mBuilt) :
        LET b == mBuilt[k]
        IN /\ Len(b.mapping) = Len(b.before.polygons)
           /\ \A i \in 1..Len(b.mapping) : b.mapping[i] = b.before.polygons[i].material_index
           /\ b.after = b.before
           /\ mMesh = b.before
           /\ \A j \in 1..Len(mBuilt) : mBuilt[j].mapping = b.mapping

\* two calls on a mesh whose faces use different slots, none its own index
C11_Witness ==
    /\ Len(mBuilt) = 2
    /\ Len(mMesh.polygons) = MaxFaces
    /\ mBuilt[2].mapping[1] = 2
    /\ mBuilt[2].mapping[2] = 0
    /\ mBuilt[1].mapping = mBuilt[2].mapping

-----------------------------------------------------------------------------
(* The noise model: applyNoise(mu, sigma).  Numbers are in tenths; a       *)
(* number or array argument is [scalar, data], a scalar holding one datum. *)
(* The standard normal draws behind Generator.normal are whole standard    *)
(* deviations in -MaxZ..MaxZ, one draw per element of the result.          *)

Scalar(x) == [scalar |-> TRUE, data |-> <<x>>]
Array(xs) == [scalar |-> FALSE, data |-> xs]

\* numpy broadcasting of two arguments: equal lengths, or one of length one
Broadcastable(a, b) ==
    Len(a.data) = Len(b.data) \/ Len(a.data) = 1 \/ Len(b.data) = 1

BroadcastLen(a, b) == IF Len(a.data) >= Len(b.data) THEN Len(a.data) ELSE Len(b.data)

BroadcastAt(a, i) == IF Len(a.data) = 1 THEN a.data[1] ELSE a.data[i]

\* Generator.normal(loc, scale, None) on the draws z: loc + scale * z for each
\* element; a negative scale is refused, shapes that do not broadcast too
Normal(loc, scale, z) ==
    IF \E i \in 1..Len(scale.data) : scale.data[i] < 0 THEN Raise("ValueError")
    ELSE IF ~Broadcastable(loc, scale) THEN Raise("ValueError")
    ELSE Return([scalar |-> loc.scalar /\ scale.scalar,
                 data |-> [i \in 1..BroadcastLen(loc, scale) |->
                              BroadcastAt(loc, i) + BroadcastAt(scale, i) * z[i]]])

\* a variant that draws with a standard deviation of one whatever sigma is
ApplyNoise_UnitScale(mu, sigma, z) == Normal(mu, Scalar(10), z)

ApplyNoise(mu, sigma, z) == Normal(mu, sigma, z)

NoiseValues(S) ==
    {Scalar(x) : x \in S} \cup {Array(xs) : xs \in SeqsUpTo(S, MaxLen) \ {<<>>}}

NoiseMus == NoiseValues({-10, 0, 25})
NoiseSigmas == NoiseValues({-5, 0, 5})

Draws == [1..MaxLen -> -MaxZ..MaxZ]

InitNoise ==
    /\ NoScan /\ NoUI
    /\ mMesh = None /\ mBuilt = <<>>
    /\ nMu \in NoiseMus
    /\ nSigma \in NoiseSigmas
    /\ nOut = None
    /\ rngCount = 0 /\ rngUsers = <<>> /\ calls = <<>>

\* one applyNoise(mu, sigma) call
Noise ==
    /\ nOut = None
    /\ \E z \in Draws : nOut' = ApplyNoise(nMu, nSigma, z)
    /\ UNCHANGED <<mMesh, mBuilt, nMu, nSigma, rngCount, rngUsers, calls>>
    /\ UNCHANGED <<scanVars, uiVars>>

NextNoise ==
    \/ Noise

SpecNoise == InitNoise /\ [][NextNoise]_vars

\* C12: with a standard deviation of 0.0 the call returns its mean as it
\* is: the same number for a number, the same elements for an array.
C12_ZeroSigma ==
    (nOut # None /\ nSigma = Scalar(0)) => nOut = Return(nMu)

\* an array of different means came back from a zero-sigma call
C12_Witness ==
    /\ nSigma = Scalar(0)
    /\ nMu = Array(<<25, -10>>)
    /\ nOut = Return(Array(<<25, -10>>))

-----------------------------------------------------------------------------
(* Concurrent applyNoise calls.  Each call evaluates                       *)
(* np.random.default_rng(), then .normal(...) on the generator it got, and *)
(* returns; the steps of different threads interleave freely.  Generators  *)
(* are numbered in creation order, and rngUsers[g] holds the calls whose   *)
(* draw read and advanced the state of generator g.                        *)

Threads == 1..MaxThreads

\* a variant that hands every caller the generator created first
DefaultRng_Shared(count) == 1

\* np.random.default_rng() without a seed: a new Generator over a new
\* BitGenerator, seeded from the operating system
DefaultRng(count) == count + 1

IdleCall(done) == [pc |-> "idle", done |-> done, rng |-> 0]

InitRace ==
    /\ NoScan /\ NoUI
    /\ mMesh = None /\ mBuilt = <<>>
    /\ nMu = None /\ nSigma = None /\ nOut = None
    /\ rngCount = 0
    /\ rngUsers = <<>>
    /\ calls = [t \in Threads |-> IdleCall(0)]

\* thread t enters applyNoise and evaluates np.random.default_rng()
MakeRng(t) ==
    /\ calls[t].pc = "idle"
    /\ calls[t].done < MaxCalls
    /\ LET g == DefaultRng(rngCount)
       IN /\ rngUsers' = IF g > Len(rngUsers) THEN Append(rngUsers, {}) ELSE rngUsers
          /\ rngCount' = Len(rngUsers')
          /\ calls' = [calls EXCEPT ![t] = [pc |-> "made", done |-> @.done, rng |-> g]]
    /\ UNCHANGED <<mMesh, mBuilt, nMu, nSigma, nOut>>
    /\ UNCHANGED <<scanVars, uiVars>>

\* thread t evaluates .normal(mu, sigma, None): the draw reads and advances
\* the state of the call's generator
Draw(t) ==
    /\ calls[t].pc = "made"
    /\ rngUsers' = [rngUsers EXCEPT ![calls[t].rng] = @ \cup {<<t, calls[t].done>>}]
    /\ calls' = [calls EXCEPT ![t].pc = "drawn"]
    /\ UNCHANGED <<mMesh, mBuilt, nMu, nSigma, nOut, rngCount>>
    /\ UNCHANGED <<scanVars, uiVars>>

\* thread t returns from applyNoise; nothing keeps the generator
ReturnNoise(t) ==
    /\ calls[t].pc = "drawn"
    /\ calls' = [calls EXCEPT ![t] = IdleCall(@.done + 1)]
    /\ UNCHANGED <<mMesh, mBuilt, nMu, nSigma, nOut, rngCount, rngUsers>>
    /\ UNCHANGED <<scanVars, uiVars>>

NextRace ==
    \/ \E t \in Threads : MakeRng(t)
    \/ \E t \in Threads : Draw(t)
    \/ \E t \in Threads : ReturnNoise(t)

SpecRace == InitRace /\ [][NextRace]_vars

\* C13: whatever the interleaving, the state of a generator is accessed by
\* one call at most, so no two draws meet on one generator.
C13_NoSharedGenerator ==
    \A g \in 1..Len(rngUsers) : Cardinality(rngUsers[g]) <= 1

\* two calls are between their draw and their return at the same time, after
\* an earlier call of one of the threads has returned
C13_Witness ==
    /\ \A t \in Threads : calls[t].pc = "drawn"
    /\ \E t \in Threads : calls[t].done > 0
    /\ \E t, u \in Threads : t # u /\ calls[t].rng # calls[u].rng
    /\ \A g \in 1..Len(rngUsers) : Cardinality(rngUsers[g]) = 1

-----------------------------------------------------------------------------
(* Dependency management.  The interpreter's importable modules and        *)
(* os.environ are the state; pip's exit status, and whether a module pip   *)
(* reported as installed can then be imported, are inputs.                 *)

\* the modules the add-on imports
Modules == {"numpy", "yaml"}

\* importName = None
NoName == ""

HintLine(importName) == [kind |-> "hint", name |-> importName]
CommentLine == [kind |-> "comment", name |-> NoName]
BlankLine == [kind |-> "blank", name |-> NoName]
RequirementLine(name) == [kind |-> "requirement", name |-> name]

\* requirements.txt: "#/yaml" names the module that "pyyaml==..." installs
RequirementsFile ==
    <<CommentLine, HintLine("yaml"), RequirementLine("pyyaml"), BlankLine, RequirementLine("numpy")>>

\* the environment variables the code touches; Unset marks an absent one
EnvKeys == {"PYTHONNOUSERSITE", "PIP_REQ_TRACKER"}
Unset == "unset"
EnvValues == {Unset, "1", "0"}
Environs == [EnvKeys -> EnvValues]

EnvClear(env) == [k \in EnvKeys |-> Unset]
EnvUpdate(env, other) == [k \in EnvKeys |-> IF other[k] # Unset THEN other[k] ELSE env[k]]
EnvPop(env, key) == [env EXCEPT ![key] = Unset]

\* ModuleNotFoundError is an ImportError
Catches(clause, exc) ==
    exc \in clause \/ (exc = "ModuleNotFoundError" /\ "ImportError" \in clause)

\* import_module(module_name): importlib.import_module on it
ImportModule(module_name, imp) ==
    IF module_name \in imp THEN Return(module_name) ELSE Raise("ModuleNotFoundError")

\* install_pip(): pip is looked for, and bootstrapped if it is not there
InstallPip(env, pipPresent) ==
    IF pipPresent THEN env ELSE EnvPop(env, "PIP_REQ_TRACKER")

\* install_and_import_module(module, importName); pipOk is pip's exit status
\* and lands whether a successful install made the module importable
InstallAndImportModule(module, importName, imp, env, pipOk, lands) ==
    LET environ_orig == env
        env1 == [env EXCEPT !["PYTHONNOUSERSITE"] = "1"]
        \* try: subprocess.run(..., check=True); except CalledProcessError: print
        printed == IF pipOk THEN <<"Installing">> ELSE <<"Installing", "Failed to install">>
        imp1 == IF pipOk /\ lands THEN imp \cup {importName} ELSE imp
        \* finally: os.environ.clear(); os.environ.update(environ_orig)
        env2 == EnvUpdate(EnvClear(env1), environ_orig)
    IN [res |-> ImportModule(importName, imp1), importable |-> imp1, environ |-> env2,
        during |-> env1, printed |-> printed]

\* the loop of register() over the lines of requirements.txt, from line i on
RECURSIVE RegisterLoop(_, _, _)
RegisterLoop(i, importName, imp) ==
    IF i > Len(RequirementsFile) THEN Return(TRUE)
    ELSE LET line == RequirementsFile[i]
         IN IF line.kind = "hint" THEN RegisterLoop(i + 1, line.name, imp)
            ELSE IF line.kind \in {"comment", "blank"} THEN RegisterLoop(i + 1, importName, imp)
            ELSE LET name == IF importName = NoName THEN line.name ELSE importName
                     r == ImportModule(name, imp)
                 IN IF r.exc # "" THEN r ELSE RegisterLoop(i + 1, NoName, imp)

\* the loop of execute() over the lines, from line i on; outcome[i] is what
\* pip does for the requirement on line i
RECURSIVE ExecuteLoop(_, _, _, _, _)
ExecuteLoop(i, importName, imp, env, outcome) ==
    IF i > Len(RequirementsFile) THEN [res |-> Return(TRUE), importable |-> imp, environ |-> env]
    ELSE LET line == RequirementsFile[i]
         IN IF line.kind = "hint" THEN ExecuteLoop(i + 1, line.name, imp, env, outcome)
            ELSE IF line.kind \in {"comment", "blank"} THEN ExecuteLoop(i + 1, importName, imp, env, outcome)
            ELSE LET name == IF importName = NoName THEN line.name ELSE importName
                     r == InstallAndImportModule(line.name, name, imp, env, outcome[i].pipOk, outcome[i].lands)
                 IN IF r.res.exc # "" THEN [res |-> r.res, importable |-> r.importable, environ |-> r.environ]
                    ELSE ExecuteLoop(i + 1, NoName, r.importable, r.environ, outcome)

PipOutcomes == [pipOk : BOOLEAN, lands : BOOLEAN]

\* the lines of requirements.txt that name a package
RequirementLines == {i \in 1..Len(RequirementsFile) : RequirementsFile[i].kind = "requirement"}

\* WM_OT_INSTALL_DEPENDENCIES.poll and EXAMPLE_PT_DEPENDENCIES_PANEL.poll,
\* both inside dependency_management
OperatorPoll == ~dm_dependencies_installed
PanelPoll == ~dm_dependencies_installed

InitDeps ==
    /\ NoScan /\ NoMath
    /\ importable \in SUBSET Modules
    /\ environ \in Environs
    /\ ui_dependencies_installed = FALSE
    /\ dm_dependencies_installed = FALSE
    /\ lastExecute = {}
    /\ lastInstall = None
    /\ custom = <<>> /\ custom_index = 0 /\ lastOp = None

\* register(): the global statement binds dependencies_installed of the
\* module register is defined in, user_interface
Register ==
    /\ LET r == RegisterLoop(1, NoName, importable)
       IN ui_dependencies_installed' = (r.exc = "")
    /\ UNCHANGED <<importable, environ, dm_dependencies_installed, lastExecute, lastInstall,
                   custom, custom_index, lastOp>>
    /\ UNCHANGED <<scanVars, mathVars>>

\* WM_OT_INSTALL_DEPENDENCIES.execute, which Blender runs when poll allows
Execute ==
    /\ OperatorPoll
    /\ \E pipPresent \in BOOLEAN, outcome \in [RequirementLines -> PipOutcomes] :
          LET r == ExecuteLoop(1, NoName, importable, InstallPip(environ, pipPresent), outcome)
          IN /\ importable' = r.importable
             /\ environ' = r.environ
             /\ IF r.res.exc # "" /\ Catches({"CalledProcessError", "ImportError"}, r.res.exc)
                THEN /\ lastExecute' = {"CANCELLED"}
                     /\ UNCHANGED dm_dependencies_installed
                ELSE /\ dm_dependencies_installed' = TRUE
                     /\ lastExecute' = {"FINISHED"}
    /\ UNCHANGED <<ui_dependencies_installed, lastInstall, custom, custom_index, lastOp>>
    /\ UNCHANGED <<scanVars, mathVars>>

\* one install_and_import_module call on its own
Install ==
    /\ \E i \in RequirementLines, o \in PipOutcomes :
          /\ LET module == RequirementsFile[i].name
                 importName == IF module = "pyyaml" THEN "yaml" ELSE module
                 r == InstallAndImportModule(module, importName, importable, environ, o.pipOk, o.lands)
             IN /\ importable' = r.importable
                /\ environ' = r.environ
                /\ lastInstall' = [module |-> module, importName |-> importName, pipOk |-> o.pipOk,
                                   before |-> environ, during |-> r.during, after |-> r.environ,
                                   importableAfter |-> r.importable, res |-> r.res]
    /\ UNCHANGED <<ui_dependencies_installed, dm_dependencies_installed, lastExecute,
                   custom, custom_index, lastOp>>
    /\ UNCHANGED <<scanVars, mathVars>>

NextDeps ==
    \/ Register
    \/ Execute
    \/ Install

SpecDeps == InitDeps /\ [][NextDeps]_vars

\* C14: once register() has found every dependency importable, or an execute
\* has returned FINISHED, the operator's and the panel's poll are False; after
\* an execute that returned CANCELLED the operator's poll is still True.
C14_AvailableOnlyWhenMissing ==
    /\ (ui_dependencies_installed \/ "FINISHED" \in lastExecute) => (~OperatorPoll /\ ~PanelPoll)
    /\ "CANCELLED" \in lastExecute => OperatorPoll

\* C15: a call whose pip installation failed raised CalledProcessError, a call
\* whose module cannot be imported afterwards raised an ImportError, and
\* os.environ after the call is what it was before.
C15_RaisesAndRestores ==
    lastInstall # None =>
        /\ ~lastInstall.pipOk => lastInstall.res.exc = "CalledProcessError"
        /\ (lastInstall.pipOk /\ lastInstall.importName \notin lastInstall.importableAfter)
              => Catches({"ImportError"}, lastInstall.res.exc)
        /\ lastInstall.after = lastInstall.before

-----------------------------------------------------------------------------
(* The water profile list: scene.custom, a Blender collection of items     *)
(* with depth, speed and density, and scene.custom_index, the selected     *)
(* row.  Indices are Python's, from 0.  A collection ignores remove(i) and *)
(* move(i, j) when an index is outside the collection.                     *)

Item(depth, speed, density) ==
    [name |-> <<"str", depth>>, depth |-> depth, speed |-> speed, density |-> density]

InRange(customList, i) == 0 <= i /\ i < Len(customList)

\* customList.remove(i)
Remove0(customList, i) ==
    IF InRange(customList, i)
    THEN SubSeq(customList, 1, i) \o SubSeq(customList, i + 2, Len(customList))
    ELSE customList

\* customList.move(src, dst): the item leaves src and is put in at dst
Move0(customList, src, dst) ==
    IF InRange(customList, src) /\ InRange(customList, dst)
    THEN LET rest == Remove0(customList, src)
         IN SubSeq(rest, 1, dst) \o <<customList[src + 1]>> \o SubSeq(rest, dst + 1, Len(rest))
    ELSE customList

\* the inner loop of sortList from innerIndex on: the index of the first
\* least depth at or after index
RECURSIVE MinimumIndex(_, _, _)
MinimumIndex(customList, innerIndex, minimumIndex) ==
    IF innerIndex >= Len(customList) THEN minimumIndex
    ELSE MinimumIndex(customList, innerIndex + 1,
                      IF At0(customList, innerIndex).depth < At0(customList, minimumIndex).depth
                      THEN innerIndex ELSE minimumIndex)

\* the outer loop of sortList: for index in range(index, stop)
RECURSIVE SortLoop(_, _, _)
SortLoop(customList, index, stop) ==
    IF index >= stop THEN customList
    ELSE SortLoop(Move0(customList, MinimumIndex(customList, index, index), index), index + 1, stop)

\* a variant whose outer loop ends one item early
SortList_ShortLoop(customList) == SortLoop(customList, 0, Len(customList) - 2)

SortList(customList) == SortLoop(customList, 0, Len(customList) - 1)

\* sorted(S) for a set of indices
RECURSIVE SortedSeq(_)
SortedSeq(S) ==
    IF S = {} THEN <<>>
    ELSE LET least == CHOOSE x \in S : \A y \in S : x <= y
         IN <<least>> \o SortedSeq(S \ {least})

\* a variant that keeps the first item of every depth and drops the later ones
FindDuplicates_KeepFirst(customList) ==
    SortedSeq({c \in 0..(Len(customList) - 1) :
                  \E e \in 0..(c - 1) : At0(customList, e).depth = At0(customList, c).depth})

\* find_duplicates: for every depth, the indices of all items but the last
FindDuplicates(customList) ==
    SortedSeq({c \in 0..(Len(customList) - 1) :
                  \E l \in (c + 1)..(Len(customList) - 1) : At0(customList, l).depth = At0(customList, c).depth})

\* the loop of removeDuplicatesFromList over duplicates[::-1], from its k-th
\* last entry down
RECURSIVE RemoveAll(_, _, _)
RemoveAll(customList, duplicates, k) ==
    IF k = 0 THEN customList
    ELSE RemoveAll(Remove0(customList, duplicates[k]), duplicates, k - 1)

ListState(customList, index) == [custom |-> customList, custom_index |-> index]

AddItemToList(scene, depth, speed, density) ==
    LET added == Append(scene.custom, Item(depth, speed, density))
    IN ListState(added, Len(added) - 1)

RemoveDuplicatesFromList(scene) ==
    LET duplicates == FindDuplicates(scene.custom)
        kept == RemoveAll(scene.custom, duplicates, Len(duplicates))
    IN ListState(kept, IF duplicates # <<>> THEN Len(kept) - 1 ELSE scene.custom_index)

\* a variant that selects the row before the removed one, whatever it is
RemoveIndex_NoClamp(index, length) == index - 1

\* min(max(0, index - 1), len(my_list) - 1)
RemoveIndex(index, length) ==
    LET lower == IF index - 1 > 0 THEN index - 1 ELSE 0
    IN IF lower < length - 1 THEN lower ELSE length - 1

\* what the add operator reads from scene.scannerProperties
Depths == 0..MaxDepth
Waters == {[speed |-> 1480, density |-> 1000], [speed |-> 1500, density |-> 1025]}

\* scene.custom_index is an unconstrained IntProperty
Indices == -1..(MaxDepth + 1)

Op(op, depth, water) ==
    [op |-> op, depth |-> depth, speed |-> water.speed, density |-> water.density,
     before |-> custom, index |-> custom_index]

NoWater == [speed |-> 0, density |-> 0]

InitList ==
    /\ NoScan /\ NoMath
    /\ importable = {} /\ environ = <<>>
    /\ ui_dependencies_installed = FALSE /\ dm_dependencies_installed = FALSE
    /\ lastExecute = {} /\ lastInstall = None
    /\ custom = <<>>
    /\ custom_index = 0
    /\ lastOp = [op |-> "none"]

\* CUSTOM_OT_addItem.execute
AddItem ==
    /\ \E depth \in Depths, water \in Waters :
          LET added == AddItemToList(ListState(custom, custom_index), depth, water.speed, water.density)
              unique == RemoveDuplicatesFromList(added)
          IN /\ custom' = SortList(unique.custom)
             /\ custom_index' = unique.custom_index
             /\ lastOp' = Op("add", depth, water)
    /\ UNCHANGED <<importable, environ, ui_dependencies_installed, dm_dependencies_installed,
                   lastExecute, lastInstall>>
    /\ UNCHANGED <<scanVars, mathVars>>

\* CUSTOM_OT_removeItem.execute
RemoveItem ==
    /\ custom' = Remove0(custom, custom_index)
    /\ custom_index' = RemoveIndex(custom_index, Len(custom'))
    /\ lastOp' = Op("remove", 0, NoWater)
    /\ UNCHANGED <<importable, environ, ui_dependencies_installed, dm_dependencies_installed,
                   lastExecute, lastInstall>>
    /\ UNCHANGED <<scanVars, mathVars>>

\* CUSTOM_OT_clearList.execute, which Blender runs when poll allows
ClearList ==
    /\ custom # <<>>
    /\ custom' = <<>>
    /\ lastOp' = Op("clear", 0, NoWater)
    /\ UNCHANGED custom_index
    /\ UNCHANGED <<importable, environ, ui_dependencies_installed, dm_dependencies_installed,
                   lastExecute, lastInstall>>
    /\ UNCHANGED <<scanVars, mathVars>>

\* the user interface or a script assigns scene.custom_index
SelectItem ==
    /\ \E i \in Indices : custom_index' = i
    /\ lastOp' = Op("select", 0, NoWater)
    /\ UNCHANGED custom
    /\ UNCHANGED <<importable, environ, ui_dependencies_installed, dm_dependencies_installed,
                   lastExecute, lastInstall>>
    /\ UNCHANGED <<scanVars, mathVars>>

NextList ==
    \/ AddItem
    \/ RemoveItem
    \/ ClearList
    \/ SelectItem

SpecList == InitList /\ [][NextList]_vars

\* C16: from the empty list on, whatever is added, removed or cleared, the
\* depths of the list ascend strictly from each item to the next.
C16_StrictlyAscending ==
    \A i \in 1..(Len(custom) - 1) : custom[i].depth < custom[i + 1].depth

\* an add put its item between two items that were there
C16_Witness ==
    /\ lastOp.op = "add"
    /\ Len(lastOp.before) = 2
    /\ Len(custom) = 3
    /\ custom[2].depth = lastOp.depth

\* C17: an add whose depth is on the list already leaves the list as long
\* as it was, with one item of that depth that carries the new speed and
\* density in the old item's place, and every other item as it was.
C17_AddEdits ==
    (lastOp.op = "add" /\ \E i \in 1..Len(lastOp.before) : lastOp.before[i].depth = lastOp.depth) =>
        /\ Len(custom) = Len(lastOp.before)
        /\ Cardinality({i \in 1..Len(custom) : custom[i].depth = lastOp.depth}) = 1
        /\ \A i \in 1..Len(custom) :
              custom[i] = IF lastOp.before[i].depth = lastOp.depth
                          THEN Item(lastOp.depth, lastOp.speed, lastOp.density)
                          ELSE lastOp.before[i]

\* an add changed speed and density of the first of three items
C17_Witness ==
    /\ lastOp.op = "add"
    /\ Len(lastOp.before) = 3
    /\ lastOp.before[1].depth = lastOp.depth
    /\ lastOp.before[1].speed # lastOp.speed
    /\ lastOp.before[1].density # lastOp.density
    /\ custom[1].speed = lastOp.speed
    /\ custom[1].density = lastOp.density

\* C18: after an add or a remove that leaves items on the list, the selected
\* row is a row of the list.
C18_IndexInRange ==
    (lastOp.op \in {"add", "remove"} /\ custom # <<>>) =>
        (0 <= custom_index /\ custom_index <= Len(custom) - 1)

\* a remove took the first of several rows
C18_Witness ==
    /\ lastOp.op = "remove"
    /\ lastOp.index = 0
    /\ Len(lastOp.before) = Len(custom) + 1
    /\ Len(custom) >= 2
    /\ custom_index = 0

=============================================================================
